---- MODULE Spec2Model ----
(***************************************************************************)
(* A model of src/app.py: the cart-screenshot extractor (extract_cart_df), *)
(* the expense-document generator (create_expense_report with its inner    *)
(* number_to_korean) and the Streamlit "process" handler that runs them    *)
(* over the uploaded images.                                               *)
(*                                                                         *)
(* Texts are sequences of tokens.  Korean words of the source are written  *)
(* in romanised form: the columns naeyong (item), gyugyeok (spec), suryang *)
(* (quantity), yesangdanga (expected unit price), geumaek (amount); the    *)
(* numerals yeong il i sam sa o yuk chil pal gu; the units cheon baek sip  *)
(* and man eok jo; the suffix wonjeong.                                    *)
(***************************************************************************)
EXTENDS Integers, Sequences, FiniteSets, TLC

VARIABLES
    caller,        \* "direct": extract_cart_df called on its own; "ui": the process button; "pure": number_to_korean alone
    pc,            \* position of the running code
    uploads,       \* number of uploaded images (len(uploads))
    max_retries,   \* extract_cart_df's max_retries argument
    img,           \* index of the image being extracted (enumerate(uploads), 1-based)
    i,             \* extract_cart_df's loop variable
    calls,         \* client.chat.completions.create calls made by the running extraction
    sleeps,        \* arguments of the time.sleep calls made by the running extraction
    res,           \* the response the endpoint returned to the running extraction
    ret,           \* what the last finished extraction gave its caller
    log,           \* one entry per finished extraction of the batch
    all_dfs,       \* the process handler's all_dfs
    combined_df,   \* the process handler's combined_df
    total,         \* the process handler's total
    shown,         \* what the page shows after the handler ran
    report,        \* the pair returned by create_expense_report
    num,           \* the argument of number_to_korean
    korean_amount  \* the result of number_to_korean

vars == <<caller, pc, uploads, max_retries, img, i, calls, sleeps, res, ret, log,
          all_dfs, combined_df, total, shown, report, num, korean_amount>>

(***************************************************************************)
(* Bounds of the model.                                                    *)
(***************************************************************************)
MaxRetries == 3
MaxImages == 3
MaxLen == 5
MaxMantissa == 120
MaxExp == 6

(***************************************************************************)
(* Program constants.                                                      *)
(***************************************************************************)
DefaultMaxRetries == 2

columns == <<"naeyong", "gyugyeok", "suryang", "yesangdanga">>

(***************************************************************************)
(* Cart items the model's answers are built from.  A token "I1".."I3" in a *)
(* text stands for the JSON object literal of that item, with all four     *)
(* required fields.                                                        *)
(***************************************************************************)
ItemIds == {"I1", "I2", "I3"}

ItemOf(tok) ==
    CASE tok = "I1" -> [naeyong |-> "pen", gyugyeok |-> "", suryang |-> 2, yesangdanga |-> 500]
      [] tok = "I2" -> [naeyong |-> "toner", gyugyeok |-> "A4", suryang |-> 2, yesangdanga |-> 50000]
      [] tok = "I3" -> [naeyong |-> "paper", gyugyeok |-> "B5", suryang |-> 0, yesangdanga |-> 3000]

\* The sequences over S of length 0..n.
SeqsUpTo(S, n) == UNION {[1..k -> S] : k \in 0..n}

(***************************************************************************)
(* json.loads on a token text.  Grammar of the tokens:                     *)
(*   value ::= item | "{}" | "{items:" value "}" | "[" "]"                 *)
(*           | "[" value ("," value)* "]"                                  *)
(* Every other token ("x": a word of prose) starts no value.  The result   *)
(* is [ok, val, next]; ok = FALSE is json.JSONDecodeError.                 *)
(***************************************************************************)
JsonFail == [ok |-> FALSE, val |-> [kind |-> "none"], next |-> 0]

RECURSIVE ParseValue(_, _)
RECURSIVE ParseElems(_, _, _)
ParseValue(t, p) ==
    IF p > Len(t) THEN JsonFail
    ELSE IF t[p] \in ItemIds
         THEN [ok |-> TRUE, val |-> [kind |-> "dict", item |-> ItemOf(t[p])], next |-> p + 1]
    ELSE IF t[p] = "{}"
         THEN [ok |-> TRUE, val |-> [kind |-> "emptydict"], next |-> p + 1]
    ELSE IF t[p] = "{items:"
         THEN LET v == ParseValue(t, p + 1)
              IN  IF v.ok /\ v.next <= Len(t) /\ t[v.next] = "}"
                  THEN [ok |-> TRUE, val |-> [kind |-> "itemsdict", items |-> v.val],
                        next |-> v.next + 1]
                  ELSE JsonFail
    ELSE IF t[p] = "["
         THEN IF p + 1 <= Len(t) /\ t[p + 1] = "]"
              THEN [ok |-> TRUE, val |-> [kind |-> "list", elems |-> <<>>], next |-> p + 2]
              ELSE ParseElems(t, p + 1, <<>>)
    ELSE JsonFail

ParseElems(t, p, acc) ==
    LET v == ParseValue(t, p)
    IN  IF ~v.ok \/ v.next > Len(t) THEN JsonFail
        ELSE IF t[v.next] = "]"
             THEN [ok |-> TRUE, val |-> [kind |-> "list", elems |-> Append(acc, v.val)],
                   next |-> v.next + 1]
        ELSE IF t[v.next] = ","
             THEN ParseElems(t, v.next + 1, Append(acc, v.val))
        ELSE JsonFail

json_loads(t) ==
    LET v == ParseValue(t, 1)
    IN  IF v.ok /\ v.next = Len(t) + 1 THEN v ELSE JsonFail

(***************************************************************************)
(* re.search(r"\[.*\]", raw, re.S): the match starts at the first "[" and, *)
(* ".*" being greedy and re.S letting it cross lines, ends at the last "]" *)
(* after it.  The result is [found, group].                                *)
(***************************************************************************)
re_search(raw) ==
    LET opens == {p \in 1..Len(raw) : raw[p] = "["}
    IN  IF opens = {} THEN [found |-> FALSE, group |-> <<>>]
        ELSE LET first == CHOOSE p \in opens : \A q \in opens : p <= q
                 closes == {p \in first + 1..Len(raw) : raw[p] = "]"}
             IN  IF closes = {} THEN [found |-> FALSE, group |-> <<>>]
                 ELSE LET last == CHOOSE p \in closes : \A q \in closes : q <= p
                      IN  [found |-> TRUE, group |-> SubSeq(raw, first, last)]

(***************************************************************************)
(* pd.DataFrame(items, columns=[...]) for the values json.loads can give:  *)
(* a list of item objects gives one row per object, in order, with the     *)
(* four columns; a value that is not a list of objects is not tabular and  *)
(* the constructor raises.                                                 *)
(***************************************************************************)
DF(rows) == [kind |-> "df", columns |-> columns, rows |-> rows, error |-> ""]

Raise(e) == [kind |-> "raise", columns |-> <<>>, rows |-> <<>>, error |-> e]

NoRet == [kind |-> "none", columns |-> <<>>, rows |-> <<>>, error |-> ""]

IsFlatItemList(v) ==
    /\ v.kind = "list"
    /\ \A k \in 1..Len(v.elems) : v.elems[k].kind = "dict"

DataFrame(items) ==
    IF IsFlatItemList(items)
    THEN DF([k \in 1..Len(items.elems) |-> items.elems[k].item])
    ELSE Raise("ValueError")

(***************************************************************************)
(* A response of the endpoint: res.choices[0].message.                     *)
(***************************************************************************)
NoRes == [got |-> FALSE, tool_calls |-> FALSE, arguments |-> <<>>, content |-> <<>>]

ToolCall(arguments, content) ==
    [got |-> TRUE, tool_calls |-> TRUE, arguments |-> arguments, content |-> content]

FreeText(content) ==
    [got |-> TRUE, tool_calls |-> FALSE, arguments |-> <<>>, content |-> content]

EmptyList == [kind |-> "list", elems |-> <<>>]

(***************************************************************************)
(* extract_cart_df, lines 75-92: from the response to the returned table   *)
(* or the exception that leaves the function.                              *)
(***************************************************************************)
TextItems(r) ==
    LET raw == r.content
        whole == json_loads(raw)
    IN  IF whole.ok THEN DataFrame(whole.val)
        ELSE LET m == re_search(raw)
             IN  IF m.found
                 THEN LET inner == json_loads(m.group)
                      IN  IF inner.ok THEN DataFrame(inner.val)
                          ELSE Raise("JSONDecodeError")
                 ELSE DataFrame(EmptyList)

\* A variant of ToolItems that reads the free text although a tool call is there.
ToolItemsFromContent(r) == TextItems(r)

ToolItems(r) ==
    LET arguments == json_loads(r.arguments)
    IN  IF ~arguments.ok THEN Raise("JSONDecodeError")
        ELSE IF arguments.val.kind = "list" THEN Raise("AttributeError")
        ELSE IF arguments.val.kind = "itemsdict" THEN DataFrame(arguments.val.items)
        ELSE DataFrame(EmptyList)

ParseResponse(r) == IF r.tool_calls THEN ToolItems(r) ELSE TextItems(r)

(***************************************************************************)
(* str(int(num)) for num >= 0: the decimal digits, most significant first. *)
(***************************************************************************)
DigitChars == <<"0", "1", "2", "3", "4", "5", "6", "7", "8", "9">>

RECURSIVE str(_)
str(n) == IF n < 10 THEN <<DigitChars[n + 1]>> ELSE Append(str(n \div 10), DigitChars[(n % 10) + 1])

\* int(digit) for one digit character.
int(digit) == CHOOSE d \in 0..9 : DigitChars[d + 1] = digit

(***************************************************************************)
(* create_expense_report.number_to_korean, lines 104-128.                  *)
(***************************************************************************)
units == <<"", "man", "eok", "jo">>

nums == <<"yeong", "il", "i", "sam", "sa", "o", "yuk", "chil", "pal", "gu">>

\* What one digit appends to result: lines 113-126, for the digit at Python index k - 1.
DigitWords(num_str, k) ==
    LET digit == num_str[k]
        num_len == Len(num_str)
        unit_pos == (num_len - (k - 1) - 1) \div 4
        digit_pos == (num_len - (k - 1) - 1) % 4
    IN  IF digit # "0"
        THEN <<nums[int(digit) + 1]>>
             \o (IF digit_pos = 3 THEN <<"cheon">>
                 ELSE IF digit_pos = 2 THEN <<"baek">>
                 ELSE IF digit_pos = 1 THEN <<"sip">>
                 ELSE <<>>)
             \o (IF digit_pos = 0 /\ unit_pos > 0 THEN <<units[unit_pos + 1]>> ELSE <<>>)
        ELSE <<>>

RECURSIVE KoreanLoop(_, _)
KoreanLoop(num_str, k) ==
    IF k > Len(num_str) THEN <<>>
    ELSE DigitWords(num_str, k) \o KoreanLoop(num_str, k + 1)

number_to_korean(n) == KoreanLoop(str(n), 1) \o <<"wonjeong">>

(***************************************************************************)
(* f"{n:,}" for n >= 0: the digits with a "," before every group of three. *)
(***************************************************************************)
RECURSIVE Comma(_)
Comma(n) ==
    IF n < 1000 THEN str(n)
    ELSE Comma(n \div 1000)
         \o <<",", DigitChars[((n \div 100) % 10) + 1], DigitChars[((n \div 10) % 10) + 1],
              DigitChars[(n % 10) + 1]>>

(***************************************************************************)
(* df['geumaek'] = df['suryang'] * df['yesangdanga'] and .sum(), as the    *)
(* handler (lines 242-243) and create_expense_report (lines 100-101) do.   *)
(* WithAmountNoQuantity is a variant that forgets the quantity.            *)
(***************************************************************************)
WithAmountNoQuantity(rows) ==
    [k \in 1..Len(rows) |->
        [naeyong |-> rows[k].naeyong, gyugyeok |-> rows[k].gyugyeok,
         suryang |-> rows[k].suryang, yesangdanga |-> rows[k].yesangdanga,
         geumaek |-> rows[k].yesangdanga]]

WithAmount(rows) ==
    [k \in 1..Len(rows) |->
        [naeyong |-> rows[k].naeyong, gyugyeok |-> rows[k].gyugyeok,
         suryang |-> rows[k].suryang, yesangdanga |-> rows[k].yesangdanga,
         geumaek |-> rows[k].suryang * rows[k].yesangdanga]]

RECURSIVE SumAmount(_)
SumAmount(rows) ==
    IF rows = <<>> THEN 0 ELSE rows[1].geumaek + SumAmount(Tail(rows))

\* The four extracted columns of a table with amounts: combined_df[[...]], line 291.
FourColumns(rows) ==
    [k \in 1..Len(rows) |->
        [naeyong |-> rows[k].naeyong, gyugyeok |-> rows[k].gyugyeok,
         suryang |-> rows[k].suryang, yesangdanga |-> rows[k].yesangdanga]]

(***************************************************************************)
(* create_expense_report, lines 96-193.  The two documents are records of  *)
(* the values interpolated into the fixed templates; the date stamp and    *)
(* the fiscal year come from the clock and are left out.                   *)
(***************************************************************************)
ItemDesc(row) ==
    IF row.gyugyeok # "" THEN <<row.naeyong, "(", row.gyugyeok, ")">> ELSE <<row.naeyong>>

OverviewItem(row) ==
    IF row.gyugyeok # "" THEN <<row.naeyong, " (", row.gyugyeok, ")">> ELSE <<row.naeyong>>

Detail(row) ==
    [item_desc |-> ItemDesc(row), yesangdanga |-> Comma(row.yesangdanga),
     suryang |-> row.suryang, geumaek |-> Comma(row.geumaek)]

NoReport ==
    [made |-> FALSE,
     overview |-> [title |-> "", purpose |-> "", items |-> <<>>, total_amount |-> <<>>,
                   korean_amount |-> <<>>, details |-> <<>>],
     expense_report |-> [title |-> "", purpose |-> "", total_amount |-> <<>>,
                         korean_amount |-> <<>>, details |-> <<>>]]

create_expense_report(df, title, purpose) ==
    LET rows == WithAmount(df)
        total_amount == SumAmount(rows)
        korean == number_to_korean(total_amount)
        calculation_details == [k \in 1..Len(rows) |-> Detail(rows[k])]
    IN  [made |-> TRUE,
         overview |-> [title |-> title, purpose |-> purpose,
                       items |-> [k \in 1..Len(rows) |-> OverviewItem(rows[k])],
                       total_amount |-> Comma(total_amount),
                       korean_amount |-> korean,
                       details |-> calculation_details],
         expense_report |-> [title |-> title, purpose |-> purpose,
                             total_amount |-> Comma(total_amount),
                             korean_amount |-> korean,
                             details |-> calculation_details]]

(***************************************************************************)
(* The answers the endpoint may give.                                      *)
(***************************************************************************)
TextTokens == {"[", "]", ",", "x", "I1", "I2"}

Texts == SeqsUpTo(TextTokens, MaxLen)

Wrap(t) == <<"{items:">> \o t \o <<"}">>

\* The answers of the parsing specification around a text t: t as free text,
\* or a tool call whose arguments are an items object around t.
Answer(channel, t) == IF channel = "content" THEN FreeText(t) ELSE ToolCall(Wrap(t), <<>>)

TextResponses == {Answer(channel, t) : channel \in {"content", "tool_calls"}, t \in Texts}

\* Further tool calls: with free text beside the arguments, with arguments cut
\* short, and with arguments that are no items object.
OtherResponses ==
    {ToolCall(Wrap(t), <<"[", "I3", "]">>) : t \in SeqsUpTo(TextTokens, 3)}
    \cup {ToolCall(<<"{items:">> \o t, <<>>) : t \in SeqsUpTo(TextTokens, 3)}
    \cup {ToolCall(t, <<>>) : t \in SeqsUpTo(TextTokens \cup {"{}"}, 3)}

\* The answers of the page's specification: tables of zero, one and two rows
\* by either channel, and malformed answers by either channel.
FewResponses ==
    { ToolCall(Wrap(<<"[", "]">>), <<>>),
      ToolCall(Wrap(<<"[", "I1", "]">>), <<>>),
      ToolCall(Wrap(<<"[", "I2", ",", "I3", "]">>), <<>>),
      ToolCall(<<"{items:", "[", "I1">>, <<>>),
      FreeText(<<"x", "[", "I3", "]", "x">>),
      FreeText(<<"x">>),
      FreeText(<<"[", "I1", "]", "]">>) }

\* The answers of the retry specification: those, and every short free text.
SomeResponses == FewResponses \cup {FreeText(t) : t \in SeqsUpTo(TextTokens, 2)}

Errors == {"RateLimitError", "APIConnectionError", "APIStatusError"}

Caught(err) == err \in {"RateLimitError", "APIConnectionError"}

RECURSIVE Pow2(_)
Pow2(n) == IF n = 0 THEN 1 ELSE 2 * Pow2(n - 1)

(***************************************************************************)
(* What the page shows after the handler ran, lines 233-316.               *)
(***************************************************************************)
NoShown ==
    [dataframe |-> <<>>, info_total |-> <<>>, excel_header |-> <<>>, excel_rows |-> <<>>,
     documents |-> FALSE, info_prompt |-> FALSE, warning |-> FALSE]

(***************************************************************************)
(* Initial states.                                                         *)
(***************************************************************************)
InitCommon ==
    /\ img = 0 /\ i = 0 /\ calls = 0 /\ sleeps = <<>>
    /\ res = NoRes /\ ret = NoRet /\ log = <<>>
    /\ all_dfs = <<>> /\ combined_df = <<>> /\ total = 0
    /\ shown = NoShown /\ report = NoReport
    /\ korean_amount = <<>>

\* The page with its images uploaded and the button not yet pressed; the
\* handler calls extract_cart_df without max_retries (line 229).
Init ==
    /\ caller = "ui" /\ pc = "idle"
    /\ uploads \in 1..MaxImages
    /\ max_retries = DefaultMaxRetries
    /\ num = 0
    /\ InitCommon

\* extract_cart_df entered by a caller of its own, with any max_retries.
InitExtract ==
    /\ caller = "direct" /\ pc = "call"
    /\ uploads = 0
    /\ max_retries \in 0..MaxRetries
    /\ num = 0
    /\ InitCommon

\* extract_cart_df entered with the default max_retries.
InitParse ==
    /\ caller = "direct" /\ pc = "call"
    /\ uploads = 0
    /\ max_retries = DefaultMaxRetries
    /\ num = 0
    /\ InitCommon

Nums == {m * (10 ^ e) : m \in 0..MaxMantissa, e \in 0..MaxExp}

\* number_to_korean about to be applied to a total.
InitKorean ==
    /\ caller = "pure" /\ pc = "convert"
    /\ uploads = 0
    /\ max_retries = DefaultMaxRetries
    /\ num \in Nums
    /\ InitCommon

(***************************************************************************)
(* extract_cart_df, lines 55-73: the retry loop.                           *)
(***************************************************************************)
\* A variant of Exhausted that gives up one attempt early.
ExhaustedEarly(k, n) == k + 1 >= n

\* Line 71: the attempt that failed was the last one.
Exhausted(k, n) == k = n

\* A variant of Backoff that grows linearly: 2 * i for 2 ** i.
BackoffLinear(k) == 2 * k

\* Line 73: the argument of time.sleep after failed attempt k.
Backoff(k) == Pow2(k)

\* Line 230: not df.empty.
NotEmpty(df) == Len(df) > 0

\* A variant of concat that keeps the last table only.
concatLast(dfs) == IF dfs = <<>> THEN <<>> ELSE dfs[Len(dfs)]

\* Line 235: pd.concat(all_dfs, ignore_index=True).
RECURSIVE concat(_)
concat(dfs) == IF dfs = <<>> THEN <<>> ELSE dfs[1] \o concat(Tail(dfs))

(***************************************************************************)
(* The end of one extract_cart_df call that returns the table retv.  A     *)
(* direct caller just has the table; the handler's loop (lines 227-231)    *)
(* keeps a table that is not empty and goes on to the next image, or       *)
(* leaves the loop after the last one.                                     *)
(***************************************************************************)
Return(retv, resv, calls1, exhausted) ==
    /\ ret' = retv
    /\ IF caller = "direct"
       THEN /\ pc' = "returned"
            /\ calls' = calls1
            /\ res' = resv
            /\ UNCHANGED <<img, i, sleeps, log, all_dfs>>
       ELSE /\ log' = Append(log, [calls |-> calls1, sleeps |-> sleeps,
                                   rows |-> retv.rows, exhausted |-> exhausted])
            /\ all_dfs' = IF NotEmpty(retv.rows) THEN Append(all_dfs, retv.rows) ELSE all_dfs
            /\ IF img < uploads
               THEN /\ img' = img + 1
                    /\ i' = 0 /\ calls' = 0 /\ sleeps' = <<>> /\ res' = NoRes
                    /\ pc' = "call"
               ELSE /\ pc' = "render"
                    /\ calls' = calls1
                    /\ res' = resv
                    /\ UNCHANGED <<img, i, sleeps>>

\* Line 223: the button is pressed; lines 224-229 enter the first extraction.
Click ==
    /\ caller = "ui" /\ pc = "idle"
    /\ pc' = "call"
    /\ img' = 1
    /\ all_dfs' = <<>>
    /\ i' = 0 /\ calls' = 0 /\ sleeps' = <<>>
    /\ UNCHANGED <<caller, uploads, max_retries, res, ret, log, combined_df, total, shown,
                   report, num, korean_amount>>

\* Lines 57 and 70-73: the call raises err.
CallFail(err) ==
    /\ IF ~Caught(err)
       THEN /\ pc' = "raised"
            /\ ret' = Raise(err)
            /\ calls' = calls + 1
            /\ UNCHANGED <<img, i, sleeps, res, log, all_dfs>>
       ELSE IF Exhausted(i, max_retries)
       THEN Return(DF(<<>>), res, calls + 1, TRUE)
       ELSE /\ sleeps' = Append(sleeps, Backoff(i))
            /\ i' = i + 1
            /\ calls' = calls + 1
            /\ UNCHANGED <<pc, img, res, ret, log, all_dfs>>
    /\ UNCHANGED <<caller, uploads, max_retries, combined_df, total, shown, report, num,
                   korean_amount>>

\* Lines 57, 69 and 75-92: the call returns r, the loop is left and r is parsed.
CallOk(r) ==
    /\ LET out == ParseResponse(r)
       IN  IF out.kind = "raise"
           THEN /\ pc' = "raised"
                /\ ret' = out
                /\ calls' = calls + 1
                /\ res' = r
                /\ UNCHANGED <<img, i, sleeps, log, all_dfs>>
           ELSE Return(out, r, calls + 1, FALSE)
    /\ UNCHANGED <<caller, uploads, max_retries, combined_df, total, shown, report, num,
                   korean_amount>>

(***************************************************************************)
(* Lines 233-316: after the loop.                                          *)
(***************************************************************************)
\* A variant of HasTables that asks for a table of every image.
HasTablesOfAll(dfs) == Len(dfs) >= uploads

\* Line 233: if all_dfs.
HasTables(dfs) == dfs # <<>>

\* Line 287: if doc_title and doc_purpose.
HasTitleAndPurpose(doc_title, doc_purpose) == doc_title # "" /\ doc_purpose # ""

Render(doc_title, doc_purpose) ==
    /\ pc' = "done"
    /\ IF HasTables(all_dfs)
       THEN LET combined == concat(all_dfs)
                with_amount == WithAmount(combined)
                sum == SumAmount(with_amount)
                docs == HasTitleAndPurpose(doc_title, doc_purpose)
            IN  /\ combined_df' = with_amount
                /\ total' = sum
                /\ report' = IF docs
                             THEN create_expense_report(FourColumns(with_amount),
                                                        doc_title, doc_purpose)
                             ELSE report
                /\ shown' = [dataframe |-> combined,
                             info_total |-> Comma(sum),
                             excel_header |-> columns \o <<"geumaek">>,
                             excel_rows |-> with_amount,
                             documents |-> docs,
                             info_prompt |-> ~docs,
                             warning |-> FALSE]
       ELSE /\ shown' = [shown EXCEPT !.warning = TRUE]
            /\ UNCHANGED <<combined_df, total, report>>
    /\ UNCHANGED <<caller, uploads, max_retries, img, i, calls, sleeps, res, ret, log,
                   all_dfs, num, korean_amount>>

Titles == {"", "toner purchase"}

Purposes == {"", "replacement"}

\* Line 130, on its own: korean_amount = number_to_korean(total_amount).
Convert ==
    /\ caller = "pure" /\ pc = "convert"
    /\ pc' = "converted"
    /\ korean_amount' = number_to_korean(num)
    /\ UNCHANGED <<caller, uploads, max_retries, img, i, calls, sleeps, res, ret, log,
                   all_dfs, combined_df, total, shown, report, num>>

(***************************************************************************)
(* Specifications.                                                         *)
(***************************************************************************)
\* The endpoint fails, or answers with one of the answers R.
Fails == pc = "call" /\ \E err \in Errors : CallFail(err)

Answers(R) == pc = "call" /\ \E r \in R : CallOk(r)

\* The handler's code after the loop, with the two text inputs as they are.
Renders == pc = "render" /\ \E t \in Titles, u \in Purposes : Render(t, u)

\* The page: one press of the process button over the uploaded images.
Next == Click \/ Fails \/ Answers(FewResponses) \/ Renders

Spec == Init /\ [][Next]_vars

\* extract_cart_df alone, for every max_retries.
NextExtract == Fails \/ Answers(SomeResponses)

SpecExtract == InitExtract /\ [][NextExtract]_vars

\* extract_cart_df alone, over every answer of the endpoint.
NextParse == Fails \/ Answers(TextResponses) \/ Answers(OtherResponses)

SpecParse == InitParse /\ [][NextParse]_vars

\* number_to_korean alone.
NextKorean == Convert

SpecKorean == InitKorean /\ [][NextKorean]_vars

(***************************************************************************)
(* Notions the properties below are stated with.                           *)
(***************************************************************************)
\* json.dumps of a list of items: "[" item "," item ... "]".
RECURSIVE Joined(_)
Joined(ids) ==
    IF ids = <<>> THEN <<>>
    ELSE IF Len(ids) = 1 THEN <<ids[1]>>
    ELSE <<ids[1], ",">> \o Joined(Tail(ids))

ArrayText(ids) == <<"[">> \o Joined(ids) \o <<"]">>

ItemLists == SeqsUpTo(ItemIds, 3)

RowsOf(ids) == [k \in 1..Len(ids) |-> ItemOf(ids[k])]

RECURSIVE SumSeq(_)
SumSeq(q) == IF q = <<>> THEN 0 ELSE q[1] + SumSeq(Tail(q))

\* The rows of the finished extractions, image after image.
RECURSIVE LogRows(_)
LogRows(l) == IF l = <<>> THEN <<>> ELSE l[1].rows \o LogRows(Tail(l))

\* The tables of the finished extractions that have rows, image after image.
RECURSIVE LogTables(_)
LogTables(l) ==
    IF l = <<>> THEN <<>>
    ELSE (IF l[1].rows = <<>> THEN <<>> ELSE <<l[1].rows>>) \o LogTables(Tail(l))

RECURSIVE SumProducts(_)
SumProducts(rows) ==
    IF rows = <<>> THEN 0
    ELSE rows[1].suryang * rows[1].yesangdanga + SumProducts(Tail(rows))

SomeExhausted == \E k \in 1..Len(log) : log[k].exhausted

\* The reference reading of a number: 4-digit groups from the least
\* significant digit, most significant group first; in a group each nonzero
\* digit gives its numeral and its in-group unit; a group with a nonzero
\* digit is followed by its own unit.
RefDigit(d, unit) == IF d = 0 THEN <<>> ELSE <<nums[d + 1]>> \o unit

RefGroup(g) ==
    RefDigit(g \div 1000, <<"cheon">>) \o RefDigit((g \div 100) % 10, <<"baek">>)
    \o RefDigit((g \div 10) % 10, <<"sip">>) \o RefDigit(g % 10, <<>>)

RECURSIVE RefGroups(_, _)
RefGroups(n, level) ==
    IF n = 0 THEN <<>>
    ELSE RefGroups(n \div 10000, level + 1)
         \o RefGroup(n % 10000)
         \o (IF n % 10000 # 0 /\ level > 0 THEN <<units[level + 1]>> ELSE <<>>)

KoreanRef(n) == RefGroups(n, 0) \o <<"wonjeong">>

\* The first bracketed substring of a text: from its first "[" to the first "]" after it.
FirstBracketed(raw) ==
    LET opens == {p \in 1..Len(raw) : raw[p] = "["}
    IN  IF opens = {} THEN <<>>
        ELSE LET first == CHOOSE p \in opens : \A q \in opens : p <= q
                 closes == {p \in first + 1..Len(raw) : raw[p] = "]"}
             IN  IF closes = {} THEN <<>>
                 ELSE SubSeq(raw, first, CHOOSE p \in closes : \A q \in closes : p <= q)

\* The answer is malformed: arguments that are no JSON; or free text that is
\* no JSON and has no bracketed part, or one that is no JSON.
Malformed(r) ==
    IF r.tool_calls THEN ~json_loads(r.arguments).ok
    ELSE /\ ~json_loads(r.content).ok
         /\ \/ ~re_search(r.content).found
            \/ ~json_loads(re_search(r.content).group).ok

Finished == pc \in {"returned", "raised"}

(***************************************************************************)
(* C1.  With every call failing by a rate-limit or connectivity error,     *)
(* extract_cart_df makes exactly max_retries + 1 calls and returns an      *)
(* empty table with the four columns; it raises nothing.  (No answer was   *)
(* ever received: res.got is FALSE.  While the loop runs the calls made    *)
(* equal i and do not exceed max_retries, so the run ends only by the      *)
(* return at the last attempt; a run that raised without an answer raised  *)
(* an error of another class.)                                             *)
(***************************************************************************)
C1_PersistentFailure ==
    /\ (pc = "call" /\ ~res.got) => (calls = i /\ i <= max_retries)
    /\ (pc = "returned" /\ ~res.got) =>
          /\ calls = max_retries + 1
          /\ ret.kind = "df"
          /\ ret.rows = <<>>
          /\ ret.columns = <<"naeyong", "gyugyeok", "suryang", "yesangdanga">>
    /\ (pc = "raised" /\ ~res.got) => ~Caught(ret.error)

C1_Witness ==
    /\ pc = "returned" /\ ~res.got /\ max_retries = 2 /\ calls = 3 /\ ret.rows = <<>>

(***************************************************************************)
(* C2.  A successful call with malformed output ends extract_cart_df with  *)
(* no further call and an empty table; no exception reaches the caller.    *)
(***************************************************************************)
C2_MalformedGivesEmpty ==
    (Finished /\ res.got /\ Malformed(res)) =>
        /\ pc = "returned"
        /\ ret.kind = "df" /\ ret.rows = <<>>
        /\ calls = i + 1

(***************************************************************************)
(* C3.  For 1 <= n, number_to_korean(n) is the reference reading of n      *)
(* followed by wonjeong.                                                   *)
(***************************************************************************)
C3_KoreanIsReference ==
    (pc = "converted" /\ num >= 1) => korean_amount = KoreanRef(num)

(***************************************************************************)
(* C4.  A grand total of zero is rendered as yeong wonjeong in both        *)
(* generated documents.                                                    *)
(***************************************************************************)
C4_ZeroIsYeong ==
    (pc = "done" /\ report.made /\ total = 0) =>
        /\ report.overview.korean_amount = <<"yeong", "wonjeong">>
        /\ report.expense_report.korean_amount = <<"yeong", "wonjeong">>

(***************************************************************************)
(* C5.  In the combined table of the images' results every row's geumaek   *)
(* is suryang * yesangdanga, the grand total is the sum of these products  *)
(* over all rows of all images, and the page and both documents show that  *)
(* same total.                                                             *)
(***************************************************************************)
C5_AmountsAndTotal ==
    (pc = "done" /\ all_dfs # <<>>) =>
        /\ FourColumns(combined_df) = LogRows(log)
        /\ \A k \in 1..Len(combined_df) :
              combined_df[k].geumaek = combined_df[k].suryang * combined_df[k].yesangdanga
        /\ total = SumProducts(LogRows(log))
        /\ shown.info_total = Comma(SumProducts(LogRows(log)))
        /\ shown.excel_rows = combined_df
        /\ report.made =>
              /\ report.overview.total_amount = shown.info_total
              /\ report.expense_report.total_amount = shown.info_total
              /\ \A k \in 1..Len(combined_df) :
                    report.overview.details[k].geumaek = Comma(combined_df[k].geumaek)

C5_Witness ==
    /\ pc = "done" /\ report.made
    /\ Len(log) >= 2 /\ Len(all_dfs) >= 2
    /\ Len(combined_df) = 3 /\ total = 101000

(***************************************************************************)
(* C6.  A tool call whose arguments are an object with an items array of   *)
(* well-formed items gives a table with one row per item, in the items'    *)
(* order and with the items' four values, whatever the free text is.       *)
(***************************************************************************)
C6_ToolCallRows ==
    \A ids \in ItemLists :
        (Finished /\ res.got /\ res.tool_calls /\ res.arguments = Wrap(ArrayText(ids))) =>
            /\ pc = "returned"
            /\ ret.kind = "df"
            /\ ret.columns = columns
            /\ ret.rows = RowsOf(ids)

C6_Witness ==
    /\ pc = "returned" /\ res.tool_calls
    /\ res.arguments = Wrap(<<"[", "I2", ",", "I1", "]">>)
    /\ ret.rows = <<ItemOf("I2"), ItemOf("I1")>>

(***************************************************************************)
(* C7.  With no tool call and free text that is no JSON as a whole, the    *)
(* rows returned are the items of the first bracketed array of the text,   *)
(* also when further brackets follow that array.                           *)
(***************************************************************************)
C7_FirstBracketedArray ==
    \A ids \in ItemLists \ {<<>>} :
        (/\ Finished /\ res.got /\ ~res.tool_calls
         /\ ~json_loads(res.content).ok
         /\ FirstBracketed(res.content) = ArrayText(ids)) =>
            /\ pc = "returned"
            /\ ret.kind = "df"
            /\ ret.rows = RowsOf(ids)

(***************************************************************************)
(* C8.  In one process action the images are extracted one after the       *)
(* other in upload order, each once and each with a retry budget of its    *)
(* own; an image whose extraction exhausts its retries yields no rows and  *)
(* the next image is extracted all the same; the combined table is the     *)
(* concatenation, in upload order, of the rows of the images.  Nothing but *)
(* an exception that is no transient API failure ends the batch early.     *)
(***************************************************************************)
C8_BatchGoesOn ==
    /\ pc = "call" => (img = Len(log) + 1 /\ img <= uploads /\ calls = i /\ i <= max_retries)
    /\ pc \in {"render", "done"} => Len(log) = uploads
    /\ pc = "raised" => (~Caught(ret.error) /\ Len(log) = img - 1)
    /\ \A k \in 1..Len(log) :
          /\ log[k].calls >= 1 /\ log[k].calls <= max_retries + 1
          /\ log[k].exhausted => (log[k].calls = max_retries + 1 /\ log[k].rows = <<>>)
          /\ Len(log[k].sleeps) = log[k].calls - 1
    /\ all_dfs = LogTables(log)
    /\ (pc = "done" /\ all_dfs # <<>>) =>
          /\ shown.dataframe = LogRows(log)
          /\ Len(shown.excel_header) = 5
          /\ Len(shown.excel_rows) = Len(LogRows(log))

C8_Witness ==
    /\ pc = "done" /\ uploads = 3
    /\ log[1].exhausted
    /\ Len(log[2].rows) = 1 /\ Len(log[3].rows) = 2
    /\ Len(shown.dataframe) = 3

(***************************************************************************)
(* C9, as claimed: whenever an image's extraction exhausted its retries,   *)
(* the finished run shows the warning.                                     *)
(***************************************************************************)
C9_ExhaustionWarns == (pc = "done" /\ SomeExhausted) => shown.warning

(***************************************************************************)
(* C9, amended: an extraction that exhausts its retries yields an empty    *)
(* table and raises nothing, and the finished run shows the warning        *)
(* exactly when no image of the batch produced a row: an exhausted image   *)
(* beside a successfully extracted one is dropped without a warning.       *)
(***************************************************************************)
C9_WarningIffNoRows ==
    /\ \A k \in 1..Len(log) : log[k].exhausted => log[k].rows = <<>>
    /\ pc = "raised" => ~Caught(ret.error)
    /\ pc = "done" => (shown.warning <=> \A k \in 1..Len(log) : log[k].rows = <<>>)
    /\ (pc = "done" /\ shown.warning) => (shown.dataframe = <<>> /\ ~report.made)

C9_Witness ==
    /\ pc = "done" /\ SomeExhausted /\ ~shown.warning
    /\ Len(shown.dataframe) > 0

(***************************************************************************)
(* C10.  The sleeps are 2^0, 2^1, ... in this order, one after each failed *)
(* attempt but the last: none before the first attempt, none after the     *)
(* final failed one, and no call or sleep after the first success.  A run  *)
(* whose first success is attempt k has made k + 1 calls and slept         *)
(* 2^k - 1 seconds.                                                        *)
(***************************************************************************)
C10_Backoff ==
    /\ \A k \in 1..Len(sleeps) : sleeps[k] = 2 ^ (k - 1)
    /\ pc = "call" => (calls = i /\ Len(sleeps) = i)
    /\ res.got => /\ Finished
                  /\ calls = i + 1
                  /\ Len(sleeps) = i
                  /\ SumSeq(sleeps) = (2 ^ i) - 1
    /\ (pc = "returned" /\ ~res.got) =>
          /\ calls = max_retries + 1
          /\ Len(sleeps) = max_retries
          /\ SumSeq(sleeps) = (2 ^ max_retries) - 1

C10_Witness ==
    /\ pc = "returned" /\ res.got /\ i = 2 /\ calls = 3 /\ sleeps = <<1, 2>>

====
